---------------------------- MODULE Spec2Model ----------------------------
(***************************************************************************)
(* A model of the AISP provenance core: State (the graph's nodes), Op and  *)
(* OpFunction.apply (the wiring), OpRecord and Logbook (the ledger), and   *)
(* the two history walks, State.backward and Logbook.display.              *)
(*                                                                         *)
(* A State object is a positive integer, numbered in construction         *)
(* order; its fields are the functions creator_op, inputs, is_origin and   *)
(* can_trace.  An Op object is a string of Ops.  A Python str is a         *)
(* sequence of tokens, so that formatting and "contains" are computed.     *)
(***************************************************************************)
EXTENDS Integers, Sequences, FiniteSets, TLC

\* ------------------------------------------------------------------ bounds
MaxStates == 3      \* State objects constructed where any Op result is followed
MaxTraceStates == 4 \* State objects constructed where a history is traced
MaxArgs == 2        \* positional inputs of one Op call that is handed the logbook
MaxWireArgs == 1    \* positional inputs of one Op call that is handed none
MaxOutputs == 2     \* length of the list one forward() returns
MaxLog == 2         \* entries of Logbook.op_records / Logbook.bubbles
MaxFreeRecords == 2 \* OpRecord objects made by create_op_record
MaxFanIn == 2       \* inputs a test harness gives a State or a record by hand
MaxDepthArg == 2    \* the largest max_depth / count a walk is called with
MaxChildren == 2
MaxThreads == 2    \* child Ops of one CompositeOp

\* ------------------------------------------------------------ Python values
\* Python's None where a State (or nothing) is expected.
None == 0
\* Any Python value that is not a State instance (a str, a tuple, None, ...).
NotAState == -1
\* creator_op = None.
NoOp == "None"
\* The attribute State.is_origin: the bound method of the class, until
\* OpFunction.apply shadows it with the instance attribute False.
Method == "method"
ShadowedFalse == "False"
\* error = None / inputs = None of Logbook.record.
NoneStr == <<"<None>">>
NoneList == <<None>>

Ops == {"Generate", "Critique"}
\* Op.name: the class name unless a name is given (Op.__init__).
NameOf(op) == op

\* Messages an Op's forward() raises with.
Msgs == {<<"bad input">>, <<"boom">>}

\* The str "".
EmptyStr == <<>>

\* Every State object there can be.
StateIds == 1..MaxTraceStates

\* Sequences over S of length at most n.
SeqUpTo(S, n) == UNION {[1..k -> S] : k \in 0..n}

\* The elements of a sequence.
Range(s) == {s[i] : i \in 1..Len(s)}

\* substring test of Python's `in` on str: m occurs contiguously in s.
Contains(s, m) ==
    \E i \in 0..(Len(s) - Len(m)) : \A j \in 1..Len(m) : s[i + j] = m[j]

VARIABLES
    n_states,    \* how many State objects have been constructed
    creator_op,  \* State.creator_op
    inputs,      \* State.inputs
    is_origin,   \* what the attribute is_origin of the State resolves to
    can_trace,   \* State.can_trace
    payload,     \* State.payload: which payload object the State holds,
                 \* named by the State it was first constructed for
    inputs_ref,  \* which list object State.inputs is, named by the State
                 \* it was first made for
    bubbles,     \* Logbook.bubbles
    op_records,  \* Logbook.op_records
    n_records,   \* how many OpRecord objects are held (their ids are 1..n)
    free_records,\* OpRecord objects held by the caller (create_op_record)
    last,        \* the operation that ran last, its arguments and its outcome
    walk,        \* the history walk in progress: backward or display
    threads,     \* the calls of Op.__call__ running in threads, each with
                 \* the place it has reached
    agent        \* an AispAgent: its _modules and its instance __dict__

nodeVars == <<n_states, creator_op, inputs, is_origin, can_trace, payload,
              inputs_ref>>
logVars == <<bubbles, op_records>>
vars == <<n_states, creator_op, inputs, is_origin, can_trace, payload,
          inputs_ref, bubbles, op_records, n_records, free_records, last, walk,
          threads, agent>>

Live == 1..n_states

\* ------------------------------------------------------------------ OpRecord
\* OpRecord.__init__
NewOpRecord(rid, op_name, ins) ==
    [record_id |-> rid, op_name |-> op_name, inputs |-> ins,
     output |-> None, status |-> "started", error |-> NoneStr]

\* A completion that leaves the record without its output.
CompleteWithoutOutput(r, out) == [r EXCEPT !.status = "completed"]

\* OpRecord.complete
Complete(r, out) == [r EXCEPT !.output = out, !.status = "completed"]

\* OpRecord.fail
Fail(r, err) == [r EXCEPT !.status = "failed", !.error = err]

\* ------------------------------------------------------- the last operation
NoCall ==
    [kind |-> "init", op |-> NoOp, args |-> <<>>, logbook |-> FALSE,
     forward_called |-> FALSE, raised |-> NoneStr, returned |-> <<>>,
     exc |-> "none", exc_msg |-> NoneStr, result_kind |-> "none",
     result |-> <<>>, children |-> <<>>]

\* max_depth = None of State.backward, count = None of Logbook.display.
NoLimit == -1

\* No walk is in progress.
NoWalk ==
    [who |-> "none", start |-> None, max_depth |-> NoLimit, pending |-> <<>>,
     before |-> <<>>, again |-> FALSE,
     visited |-> {}, out |-> <<>>]

\* The caller is between two operations: the outcome of the last one has been
\* taken.
\* The threads a caller runs calls of Ops in.
Threads == 1..MaxThreads

\* A thread that has not called its Op yet.  pc is the line of op.py the
\* thread is to run next; fresh and stamped tell what the call has seen and
\* done; record_id is the OpRecord made for the call, 0 when there is none.
NoInvocation ==
    [pc |-> "idle", op |-> NoOp, args |-> <<>>, out |-> None,
     error |-> NoneStr, fresh |-> FALSE, stamped |-> FALSE, record_id |-> 0]

\* The names looked up on an agent: one no class defines, the attribute
\* __init__ sets (agent.py line 164) and a method of the class.
AttrNames == {"x", "name", "forward"}

\* What a name can hold: nothing, an Op, a value that is no module, the
\* method the class defines.
Absent == "<absent>"
Modules == {"op1", "op2"}
Plain == {"str", "int"}
MethodOfClass == "<method>"

\* The names the class AispAgent defines.
ClassAttrs == {"forward"}

\* AispAgent.__init__ (agent.py lines 163-166): name is a str, _modules is
\* empty.  got is what the last lookup returned, and how it was made.
NewAgent ==
    [modules |-> [a \in AttrNames |-> Absent],
     dict |-> [a \in AttrNames |-> IF a = "name" THEN "str" ELSE Absent],
     got |-> [by |-> "none", name |-> "none", value |-> Absent]]

Idle == last.kind = "init" /\ walk.who = "none"

Init ==
    /\ n_states = 0
    /\ creator_op = [s \in StateIds |-> NoOp]
    /\ inputs = [s \in StateIds |-> <<>>]
    /\ is_origin = [s \in StateIds |-> Method]
    /\ can_trace = [s \in StateIds |-> TRUE]
    /\ payload = [s \in StateIds |-> s]
    /\ inputs_ref = [s \in StateIds |-> s]
    /\ bubbles = <<>>
    /\ op_records = <<>>
    /\ n_records = 0
    /\ free_records = <<>>
    /\ last = NoCall
    /\ walk = NoWalk
    /\ threads = [t \in Threads |-> NoInvocation]
    /\ agent = NewAgent

\* State.__init__ called by the caller with a payload only: an origin State.
NewState ==
    /\ Idle
    /\ n_states < MaxStates
    /\ n_states' = n_states + 1
    /\ creator_op' = [creator_op EXCEPT ![n_states + 1] = NoOp]
    /\ inputs' = [inputs EXCEPT ![n_states + 1] = <<>>]
    /\ is_origin' = [is_origin EXCEPT ![n_states + 1] = Method]
    /\ can_trace' = [can_trace EXCEPT ![n_states + 1] = TRUE]
    /\ payload' = [payload EXCEPT ![n_states + 1] = n_states + 1]
    /\ inputs_ref' = [inputs_ref EXCEPT ![n_states + 1] = n_states + 1]
    /\ last' = NoCall
    /\ UNCHANGED <<bubbles, op_records, n_records, free_records, walk, threads, agent>>

\* ------------------------------------------------------------ OpFunction
\* A snapshot of the fields of every State, threaded through the wiring loop.
Graph == [creator_op |-> creator_op, inputs |-> inputs, is_origin |-> is_origin]

\* str(type(x)) of a value that is not a State.
TypeName == "<class 'other'>"

\* The message of the TypeError for a bad input (op.py line 80).
InputTypeErrorMsg == <<"Expected State, got ", TypeName>>

\* The message of the TypeError for a bad output (op.py line 101).
OutputTypeErrorMsg(op) ==
    <<"Op ", NameOf(op), " output must be State, got ", TypeName>>

\* A wrapping message that leaves the cause out.
RuntimeErrorMsgNoCause(op, m) == <<"Op ", NameOf(op), " failed">>

\* The message of the RuntimeError that wraps a failure of forward (line 85).
RuntimeErrorMsg(op, m) == <<"Op ", NameOf(op), " failed: ">> \o m

\* isinstance(x, State)
IsState(x) == x \in StateIds

\* A check that looks at the first input only.
InputsOkFirstOnly(args) == Len(args) = 0 \/ IsState(args[1])

\* The input check (op.py lines 78-80): every positional input is a State.
InputsOk(args) == \A i \in 1..Len(args) : IsState(args[i])

\* A stamp without the guard: the last Op to return a State owns it.
StampAlways(g, output, op, args) ==
    [creator_op |-> [g.creator_op EXCEPT ![output] = op],
     inputs |-> [g.inputs EXCEPT ![output] = args],
     is_origin |-> [g.is_origin EXCEPT ![output] = ShadowedFalse]]

\* A stamp that forgets the creator_op.
StampWithoutCreator(g, output, op, args) ==
    IF g.creator_op[output] = NoOp
    THEN [creator_op |-> g.creator_op,
          inputs |-> [g.inputs EXCEPT ![output] = args],
          is_origin |-> [g.is_origin EXCEPT ![output] = ShadowedFalse]]
    ELSE g

\* The body of the wiring loop for one State output (op.py lines 94-97):
\* stamped only when it has no creator yet.
Stamp(g, output, op, args) ==
    IF g.creator_op[output] = NoOp
    THEN [creator_op |-> [g.creator_op EXCEPT ![output] = op],
          inputs |-> [g.inputs EXCEPT ![output] = args],
          is_origin |-> [g.is_origin EXCEPT ![output] = ShadowedFalse]]
    ELSE g

\* The wiring loop (op.py lines 91-101) from position i of outputs on: each
\* State is stamped and collected in turn; the first value that is not a
\* State raises, and what was stamped before it stays stamped.
RECURSIVE WireLoop(_, _, _, _, _, _)
WireLoop(g, outputs, i, op, args, result_states) ==
    IF i > Len(outputs)
    THEN [g |-> g, ok |-> TRUE, result_states |-> result_states]
    ELSE IF IsState(outputs[i])
         THEN WireLoop(Stamp(g, outputs[i], op, args), outputs, i + 1, op,
                       args, Append(result_states, outputs[i]))
         ELSE [g |-> g, ok |-> FALSE, result_states |-> result_states]

\* op.py line 87-88: a return value that is not a list becomes a list of one.
Normalise(ret) == IF ret.is_list THEN ret.items ELSE <<ret.items[1]>>

\* A return that never collapses: always the list.
CollapseNever(result_states) == [kind |-> "list", value |-> result_states]

\* op.py line 103: one State is returned as itself, any other number as the
\* list.
Collapse(result_states) ==
    IF Len(result_states) = 1
    THEN [kind |-> "state", value |-> result_states]
    ELSE [kind |-> "list", value |-> result_states]

\* What forward may do: raise with a message, or return a value or a list.
\* items may name States that forward constructs itself: the next unused ids.
ForwardRaises(m) == [raises |-> m, is_list |-> FALSE, items |-> <<>>]
ForwardReturns(is_list, items) ==
    [raises |-> NoneStr, is_list |-> is_list, items |-> items]

\* OpFunction.apply(op, *args) when op.forward behaves as fwd, on graph g.
Apply(g, op, args, fwd) ==
    IF ~InputsOk(args)
    THEN [g |-> g, forward_called |-> FALSE, exc |-> "TypeError",
          exc_msg |-> InputTypeErrorMsg, result |-> Collapse(<<>>)]
    ELSE IF fwd.raises # NoneStr
    THEN [g |-> g, forward_called |-> TRUE, exc |-> "RuntimeError",
          exc_msg |-> RuntimeErrorMsg(op, fwd.raises),
          result |-> Collapse(<<>>)]
    ELSE LET w == WireLoop(g, Normalise(fwd), 1, op, args, <<>>)
         IN  IF w.ok
             THEN [g |-> w.g, forward_called |-> TRUE, exc |-> "none",
                   exc_msg |-> NoneStr, result |-> Collapse(w.result_states)]
             ELSE [g |-> w.g, forward_called |-> TRUE, exc |-> "TypeError",
                   exc_msg |-> OutputTypeErrorMsg(op),
                   result |-> Collapse(<<>>)]

\* ------------------------------------------------------------------ Logbook
Ledger == [bubbles |-> bubbles, op_records |-> op_records,
           n_records |-> n_records]

\* A bubble that is not kept.
DropBubble(bs, bubble) == bs

\* self.bubbles.append(bubble) (agent.py lines 78 and 93)
AppendBubble(bs, bubble) == Append(bs, bubble)

\* The record put in front: op_records.insert(0, record).
PrependRecord(rs, record) == <<record>> \o rs

\* self.op_records.append(record) (agent.py line 90)
AppendRecord(rs, record) == Append(rs, record)

\* Logbook.record(bubble, op_name, inputs, error) on ledger L
\* (agent.py lines 65-99); exc names the ValueError it raises, if any.
LogbookRecord(L, bubble, op_name, ins, error) ==
    IF op_name # NoOp
    THEN IF ins = NoneList
         THEN [L |-> L, exc |-> "ValueError",
               exc_msg |-> <<"inputs is required when op_name is provided">>]
         ELSE LET record == NewOpRecord(L.n_records + 1, op_name, ins)
              IN  IF bubble # None
                  THEN [L |-> [bubbles |-> AppendBubble(L.bubbles, bubble),
                               op_records |->
                                   AppendRecord(L.op_records,
                                                Complete(record, bubble)),
                               n_records |-> L.n_records + 1],
                        exc |-> "none", exc_msg |-> NoneStr]
                  ELSE IF error # NoneStr
                  THEN [L |-> [bubbles |-> L.bubbles,
                               op_records |->
                                   AppendRecord(L.op_records,
                                                Fail(record, error)),
                               n_records |-> L.n_records + 1],
                        exc |-> "none", exc_msg |-> NoneStr]
                  ELSE [L |-> L, exc |-> "ValueError",
                        exc_msg |-> <<"Either bubble or error must be provided for Op execution">>]
    ELSE IF bubble # None
    THEN [L |-> [L EXCEPT !.bubbles = AppendBubble(L.bubbles, bubble)],
          exc |-> "none", exc_msg |-> NoneStr]
    ELSE [L |-> L, exc |-> "ValueError",
          exc_msg |-> <<"Either bubble or op_name must be provided">>]

\* An index no record has.
NoProducingRecord(s) == 0

\* Both lists of the logbook are below the size the model follows them to.
LogHasRoom == Len(op_records) < MaxLog /\ Len(bubbles) < MaxLog

\* The loop of Op.__call__ (op.py lines 160-162): one record call per output.
RECURSIVE RecordOutputs(_, _, _, _, _)
RecordOutputs(L, outputs, i, op_name, ins) ==
    IF i > Len(outputs)
    THEN L
    ELSE RecordOutputs(LogbookRecord(L, outputs[i], op_name, ins, NoneStr).L,
                       outputs, i + 1, op_name, ins)

\* ----------------------------------------------------------------- actions
\* The values forward may return when it constructs k States of its own.
Values(k) == (1..(n_states + k)) \cup {NotAState}

\* forward constructs k States and returns all of them, lowest id first.
UsesFresh(items, k) ==
    /\ \A f \in (n_states + 1)..(n_states + k) : f \in Range(items)
    /\ \A i, j \in 1..Len(items) :
           (i < j /\ items[j] > n_states /\ items[i] > items[j]) =>
               \E h \in 1..(i - 1) : items[h] = items[j]

\* Op.__call__(*args, logbook=...) (op.py lines 151-169), forward behaving
\* as fwd and constructing k States.
Call(op, args, lb, fwd, k) ==
    LET a == Apply(Graph, op, args, fwd)
        made == IF a.forward_called THEN k ELSE 0
        L == IF ~lb THEN Ledger
             ELSE IF a.exc = "none"
             THEN RecordOutputs(Ledger, a.result.value, 1, NameOf(op), args)
             ELSE LogbookRecord(Ledger, None, NameOf(op), args, a.exc_msg).L
    IN  /\ n_states' = n_states + made
        /\ creator_op' = a.g.creator_op
        /\ inputs' = a.g.inputs
        /\ is_origin' = a.g.is_origin
        /\ UNCHANGED <<can_trace, payload>>
        /\ inputs_ref' = [s \in StateIds |->
                              IF a.g.creator_op[s] # creator_op[s] THEN s
                              ELSE inputs_ref[s]]
        /\ bubbles' = L.bubbles
        /\ op_records' = L.op_records
        /\ n_records' = L.n_records
        /\ UNCHANGED <<free_records, walk, threads, agent>>
        /\ last' = [kind |-> "call", op |-> op, args |-> args,
                    logbook |-> lb, forward_called |-> a.forward_called,
                    raised |-> IF a.forward_called THEN fwd.raises
                               ELSE NoneStr,
                    returned |-> IF a.forward_called /\ fwd.raises = NoneStr
                                 THEN Normalise(fwd) ELSE <<>>,
                    exc |-> a.exc, exc_msg |-> a.exc_msg,
                    result_kind |-> IF a.exc = "none" THEN a.result.kind
                                    ELSE "none",
                    result |-> IF a.exc = "none" THEN a.result.value
                               ELSE <<>>,
                    children |-> <<>>]

\* The logbook a call leaves is within the size the model follows it to.
LogFits == Len(op_records') <= MaxLog /\ Len(bubbles') <= MaxLog

\* The callers of a specification: the Ops they call, whether they pass the
\* logbook, and how many positional inputs they pass at most.
ArgLists(c) == SeqUpTo(Live \cup {NotAState}, c.max_args)

\* An Op is called by a caller of c; its forward raises.
CallOpRaising(c) ==
    /\ Idle /\ LogHasRoom
    /\ \E op \in c.ops, lb \in c.lbs, m \in Msgs :
           \E args \in ArgLists(c) :
               /\ Call(op, args, lb, ForwardRaises(m), 0)
               /\ LogFits

\* An Op is called; its forward returns one value that is not a list.
CallOpSingle(c) ==
    /\ Idle /\ LogHasRoom
    /\ \E op \in c.ops, lb \in c.lbs, k \in 0..1 :
           /\ n_states + k <= MaxStates
           /\ \E args \in ArgLists(c) :
              \E x \in Values(k) :
                  /\ UsesFresh(<<x>>, k)
                  /\ Call(op, args, lb, ForwardReturns(FALSE, <<x>>), k)
                  /\ LogFits

\* An Op is called; its forward returns a list.
CallOpList(c) ==
    /\ Idle /\ LogHasRoom
    /\ \E op \in c.ops, lb \in c.lbs, k \in 0..MaxOutputs :
           /\ n_states + k <= MaxStates
           /\ \E args \in ArgLists(c) :
              \E items \in SeqUpTo(Values(k), MaxOutputs) :
                  /\ UsesFresh(items, k)
                  /\ Call(op, args, lb, ForwardReturns(TRUE, items), k)
                  /\ LogFits

\* Logbook.record called directly by the caller.
LogRecord ==
    /\ Idle /\ LogHasRoom
    /\ \E bubble \in Live \cup {None},
          op_name \in {NameOf(o) : o \in Ops} \cup {NoOp},
          error \in Msgs \cup {NoneStr, EmptyStr} :
        \E ins \in SeqUpTo(Live, 1) \cup {NoneList} :
            LET r == LogbookRecord(Ledger, bubble, op_name, ins, error)
            IN  /\ Len(r.L.op_records) <= MaxLog
                /\ Len(r.L.bubbles) <= MaxLog
                /\ bubbles' = r.L.bubbles
                /\ op_records' = r.L.op_records
                /\ n_records' = r.L.n_records
                /\ UNCHANGED <<nodeVars, free_records, walk, threads, agent>>
                /\ last' = [NoCall EXCEPT !.kind = "record", !.exc = r.exc,
                                          !.exc_msg = r.exc_msg,
                                          !.op = op_name,
                                          !.args = ins,
                                          !.raised = error,
                                          !.returned = <<bubble>>]

\* The caller takes the result or the exception of the operation that just
\* ran and goes on.
Continue ==
    /\ ~Idle
    /\ last' = NoCall
    /\ UNCHANGED <<nodeVars, logVars, n_records, free_records, walk, threads, agent>>

\* Callers that use no logbook.
WireCallers == [ops |-> Ops, lbs |-> {FALSE}, max_args |-> MaxWireArgs]

NextWire ==
    \/ NewState
    \/ CallOpRaising(WireCallers)
    \/ CallOpSingle(WireCallers)
    \/ CallOpList(WireCallers)
    \/ Continue

SpecWire == Init /\ [][NextWire]_vars

\* Callers that hand every call the logbook, and record in it themselves.
LedgerCallers ==
    [ops |-> {"Generate"}, lbs |-> {TRUE}, max_args |-> MaxArgs]

NextLedger ==
    \/ NewState
    \/ CallOpRaising(LedgerCallers)
    \/ CallOpSingle(LedgerCallers)
    \/ CallOpList(LedgerCallers)
    \/ LogRecord
    \/ Continue

SpecLedger == Init /\ [][NextLedger]_vars
\* ------------------------------------------------- OpRecord held by a caller
\* create_op_record(op_name, inputs) (op.py lines 210-221).
CreateOpRecord ==
    /\ Idle
    /\ Len(free_records) < MaxFreeRecords
    /\ \E op \in Ops, ins \in SeqUpTo(Live, 1) :
           free_records' =
               Append(free_records, NewOpRecord(n_records + 1, NameOf(op), ins))
    /\ n_records' = n_records + 1
    /\ UNCHANGED <<nodeVars, logVars, last, walk, threads, agent>>

\* record.complete(output, execution_time) called on a record the caller holds.
RecordComplete ==
    /\ Idle
    /\ \E i \in 1..Len(free_records), out \in Live :
           free_records' = [free_records EXCEPT ![i] = Complete(@, out)]
    /\ UNCHANGED <<nodeVars, logVars, n_records, last, walk, threads, agent>>

\* record.fail(error) called on a record the caller holds.
RecordFail ==
    /\ Idle
    /\ \E i \in 1..Len(free_records), m \in Msgs :
           free_records' = [free_records EXCEPT ![i] = Fail(@, m)]
    /\ UNCHANGED <<nodeVars, logVars, n_records, last, walk, threads, agent>>

\* Callers that make OpRecords and drive them themselves.
NextRecord ==
    \/ NewState
    \/ CreateOpRecord
    \/ RecordComplete
    \/ RecordFail

SpecRecord == Init /\ [][NextRecord]_vars

\* ------------------------------------------------------------- test harness
\* A test harness writes provenance by hand, past OpFunction.apply, and so can
\* close a cycle.  It builds its graph in one place: in the States' fields
\* (for State.backward) or in the logbook's records (for Logbook.display).

\* s.creator_op = op; s.inputs = ins, once per State.
HarnessLink ==
    /\ Idle
    /\ op_records = <<>>
    /\ \E s \in Live, ins \in SeqUpTo(Live, MaxFanIn) \ {<<>>} :
           /\ inputs[s] = <<>>
           /\ inputs' = [inputs EXCEPT ![s] = ins]
           /\ creator_op' = [creator_op EXCEPT ![s] = "Generate"]
           /\ inputs_ref' = [inputs_ref EXCEPT ![s] = s]
    /\ UNCHANGED <<n_states, is_origin, can_trace, payload, logVars, n_records,
                   free_records, last, walk, threads, agent>>

\* logbook.record(s, op_name="Generate", inputs=ins), with any inputs.
HarnessRecord ==
    /\ Idle
    /\ LogHasRoom
    /\ \A s \in StateIds : inputs[s] = <<>>
    /\ \E s \in Live, ins \in SeqUpTo(Live, MaxFanIn) :
           LET r == LogbookRecord(Ledger, s, "Generate", ins, NoneStr)
           IN  /\ bubbles' = r.L.bubbles
               /\ op_records' = r.L.op_records
               /\ n_records' = r.L.n_records
    /\ UNCHANGED <<nodeVars, free_records, last, walk, threads, agent>>

\* ------------------------------------------------------------------- walks
\* The recursion of a walk is a stack of calls still to make, the next one
\* first; a step makes one call: it renders one line and puts the calls for
\* the children, in their order, in front of the calls that were waiting.
\* path is the chain of callers of a call, outermost first.

\* The values max_depth / count are called with.
DepthArgs == {NoLimit} \cup (0..MaxDepthArg)

\* One call of build_tree / trace_tree.
WalkCall(s, depth, path, visited) ==
    [state |-> s, depth |-> depth, path |-> path, visited |-> visited]

\* One rendered line: what it shows, for which State, at which depth.
Line(kind, op, c) ==
    [kind |-> kind, op |-> op, state |-> c.state, depth |-> c.depth]

\* The calls for the children, last input first.
ChildCallsReversed(c, ins, visited) ==
    [i \in 1..Len(ins) |->
        WalkCall(ins[Len(ins) + 1 - i], c.depth + 1, Append(c.path, c.state),
                 visited)]

\* The calls for the children ins of the State of call c.
ChildCalls(c, ins, visited) ==
    [i \in 1..Len(ins) |->
        WalkCall(ins[i], c.depth + 1, Append(c.path, c.state), visited)]

\* A guard that forgets the visited set.
BackwardStopsDepthOnly(visited, s, depth, max_depth) ==
    max_depth # NoLimit /\ depth > max_depth

\* build_tree's guard (state.py line 77): the State was rendered before in
\* this walk, or the depth is past max_depth.
BackwardStops(visited, s, depth, max_depth) ==
    \/ s \in visited
    \/ (max_depth # NoLimit /\ depth > max_depth)

\* State.backward(max_depth) is called on a State.
BackwardStart ==
    /\ Idle
    /\ \E s \in Live, k \in DepthArgs :
           walk' = [who |-> "backward", start |-> s, max_depth |-> k,
                    pending |-> <<WalkCall(s, 0, <<>>, {})>>,
                    visited |-> {}, out |-> <<>>,
                    before |-> <<>>, again |-> FALSE]
    /\ UNCHANGED <<nodeVars, logVars, n_records, free_records, last, threads, agent>>

\* One call of build_tree (state.py lines 73-96).  visited is one set, shared
\* by all the calls of the walk.
BackwardStep ==
    /\ walk.who = "backward"
    /\ walk.pending # <<>>
    /\ LET c == Head(walk.pending)
           rest == Tail(walk.pending)
       IN  IF BackwardStops(walk.visited, c.state, c.depth, walk.max_depth)
           THEN walk' = [walk EXCEPT
                    !.pending = rest,
                    !.out = Append(@, Line("loop", NoOp, c))]
           ELSE walk' = [walk EXCEPT
                    !.pending = ChildCalls(c, inputs[c.state], {}) \o rest,
                    !.visited = @ \cup {c.state},
                    !.out = Append(@, Line("bubble", creator_op[c.state], c))]
    /\ UNCHANGED <<nodeVars, logVars, n_records, free_records, last, threads, agent>>

\* trace_tree's depth guard (agent.py line 119): `count and depth >= count`.
DisplayDepthStops(count, depth) ==
    count # NoLimit /\ count # 0 /\ depth >= count

\* A guard over one set for the whole walk: every State rendered so far.
SeenInWalk(visited, s) ==
    \E i \in 1..Len(walk.out) :
        walk.out[i].state = s /\ walk.out[i].kind \in {"op", "origin"}

\* trace_tree's cycle guard (agent.py line 122).
DisplayCycleStops(visited, s) == s \in visited

\* The record trace_tree takes as the producer of s (agent.py lines 127-128):
\* the position of the first record whose output is s, 0 when there is none.
ProducingRecord(s) ==
    LET hits == {i \in 1..Len(op_records) : op_records[i].output = s}
    IN  IF hits = {} THEN 0
        ELSE CHOOSE i \in hits : \A j \in hits : i <= j

\* Logbook.display(from_bubble, count) is called; from_bubble = None stands
\* for the newest bubble, and with no bubble at all nothing is walked.
DisplayStart ==
    /\ Idle
    /\ \E s \in Live \cup {None}, k \in DepthArgs :
           LET from == IF s # None THEN s
                       ELSE IF bubbles # <<>> THEN bubbles[Len(bubbles)]
                       ELSE None
           IN  walk' = [who |-> "display", start |-> from, max_depth |-> k,
                        pending |-> IF from = None THEN <<>>
                                    ELSE <<WalkCall(from, 0, <<>>, {})>>,
                        visited |-> {}, out |-> <<>>,
                        before |-> <<>>, again |-> FALSE]
    /\ UNCHANGED <<nodeVars, logVars, n_records, free_records, last, threads, agent>>

\* One call of trace_tree (agent.py lines 115-141).  Each call has a visited
\* set of its own, a copy of its caller's.
DisplayStep ==
    /\ walk.who = "display"
    /\ walk.pending # <<>>
    /\ LET c == Head(walk.pending)
           rest == Tail(walk.pending)
           r == ProducingRecord(c.state)
           seen == c.visited \cup {c.state}
       IN  IF DisplayDepthStops(walk.max_depth, c.depth)
           THEN walk' = [walk EXCEPT
                    !.pending = rest,
                    !.out = Append(@, Line("depth", NoOp, c))]
           ELSE IF DisplayCycleStops(c.visited, c.state)
           THEN walk' = [walk EXCEPT
                    !.pending = rest,
                    !.out = Append(@, Line("cycle", NoOp, c))]
           ELSE IF r # 0
           THEN walk' = [walk EXCEPT
                    !.pending =
                        ChildCalls(c, op_records[r].inputs, seen) \o rest,
                    !.out = Append(@, Line("op", op_records[r].op_name, c))]
           ELSE walk' = [walk EXCEPT
                    !.pending = rest,
                    !.out = Append(@, Line("origin", NoOp, c))]
    /\ UNCHANGED <<nodeVars, logVars, n_records, free_records, last, threads, agent>>

\* The walk has made all its calls.
WalkDone == walk.who # "none" /\ walk.pending = <<>>

\* The walk returns its rendering to the caller.
WalkReturn ==
    /\ WalkDone
    /\ walk' = NoWalk
    /\ UNCHANGED <<nodeVars, logVars, n_records, free_records, last, threads, agent>>

\* A harness and the walks it runs.  A walk is a synchronous call: once
\* started, it makes its next call.
NextWalk ==
    \/ NewState
    \/ HarnessLink
    \/ HarnessRecord
    \/ BackwardStart
    \/ BackwardStep
    \/ DisplayStart
    \/ DisplayStep
    \/ WalkReturn

SpecWalk ==
    Init /\ [][NextWalk]_vars /\ WF_vars(BackwardStep) /\ WF_vars(DisplayStep)

\* The caller, holding the rendering a walk returned (before), makes the same
\* call again: the same walk, from the same State, with the same limit.
WalkAgain ==
    /\ WalkDone
    /\ ~walk.again
    /\ walk' = [walk EXCEPT
                   !.pending = IF walk.start = None THEN <<>>
                               ELSE <<WalkCall(walk.start, 0, <<>>, {})>>,
                   !.visited = {}, !.out = <<>>,
                   !.before = walk.out, !.again = TRUE]
    /\ UNCHANGED <<nodeVars, logVars, n_records, free_records, last, threads, agent>>

\* A harness that runs each walk twice.
NextRewalk ==
    \/ NextWalk
    \/ WalkAgain

SpecRewalk ==
    Init /\ [][NextRewalk]_vars
         /\ WF_vars(BackwardStep) /\ WF_vars(DisplayStep)

\* ------------------------------------------------- traces of wired graphs
\* op(*args) of an Op whose forward constructs one State and returns it.
CallOpDerive ==
    /\ Idle
    /\ n_states < MaxTraceStates
    /\ \E args \in SeqUpTo(Live, MaxFanIn) :
           Call("Generate", args, FALSE,
                ForwardReturns(FALSE, <<n_states + 1>>), 1)

\* Callers that derive States from States and trace them back.
NextTrace ==
    \/ NewState
    \/ CallOpDerive
    \/ Continue
    \/ BackwardStart
    \/ BackwardStep
    \/ WalkReturn

SpecTrace == Init /\ [][NextTrace]_vars /\ WF_vars(BackwardStep)

\* ------------------------------------------------------ a chain of Op calls
\* logbook.record(s): the caller records the State the chain starts from.
RecordOrigin ==
    /\ Idle
    /\ bubbles = <<>>
    /\ \E s \in Live :
           LET r == LogbookRecord(Ledger, s, NoOp, NoneList, NoneStr)
           IN  /\ bubbles' = r.L.bubbles
               /\ op_records' = r.L.op_records
               /\ n_records' = r.L.n_records
               /\ last' = [NoCall EXCEPT !.kind = "record", !.exc = r.exc,
                                         !.exc_msg = r.exc_msg,
                                         !.args = NoneList,
                                         !.returned = <<s>>]
    /\ UNCHANGED <<nodeVars, free_records, walk, threads, agent>>

\* op(newest, logbook=logbook): the next Op of the chain is called on the
\* newest bubble; its forward constructs one State and returns it, as itself
\* or as a list of one.
ChainCall ==
    /\ Idle
    /\ bubbles # <<>>
    /\ n_states < MaxTraceStates
    /\ \E op \in Ops, is_list \in BOOLEAN :
           Call(op, <<bubbles[Len(bubbles)]>>, TRUE,
                ForwardReturns(is_list, <<n_states + 1>>), 1)

\* Callers that run a chain of Ops with one logbook and display it.
NextChain ==
    \/ NewState
    \/ RecordOrigin
    \/ ChainCall
    \/ Continue
    \/ DisplayStart
    \/ DisplayStep
    \/ WalkReturn

SpecChain == Init /\ [][NextChain]_vars /\ WF_vars(DisplayStep)

\* ----------------------------------------------------------- State methods
\* The list object a clone gets when it keeps the list of its source.
AliasedInputsRef(src, new) == inputs_ref[src]

\* The list object a State constructed with inputs = self.inputs.copy() or
\* inputs = [] gets (state.py lines 43, 56, 66): one of its own.
OwnInputsRef(src, new) == new

\* src.detach() (state.py lines 51-59): a new State with the payload of src,
\* no creator_op, no inputs, can_trace False.
Detach ==
    /\ Idle
    /\ n_states < MaxStates
    /\ \E src \in Live :
           LET new == n_states + 1
           IN  /\ n_states' = new
               /\ payload' = [payload EXCEPT ![new] = payload[src]]
               /\ creator_op' = [creator_op EXCEPT ![new] = NoOp]
               /\ inputs' = [inputs EXCEPT ![new] = <<>>]
               /\ inputs_ref' = [inputs_ref EXCEPT ![new] = OwnInputsRef(src, new)]
               /\ can_trace' = [can_trace EXCEPT ![new] = FALSE]
               /\ is_origin' = [is_origin EXCEPT ![new] = Method]
               /\ last' = [NoCall EXCEPT !.kind = "detach", !.args = <<src>>,
                                         !.result_kind = "state",
                                         !.result = <<new>>]
    /\ UNCHANGED <<logVars, n_records, free_records, walk, threads, agent>>

\* src.clone() (state.py lines 61-69): a new State with a copy of the payload
\* of src, its creator_op, a copy of its inputs and its can_trace.
Clone ==
    /\ Idle
    /\ n_states < MaxStates
    /\ \E src \in Live :
           LET new == n_states + 1
           IN  /\ n_states' = new
               /\ payload' = [payload EXCEPT ![new] = new]
               /\ creator_op' = [creator_op EXCEPT ![new] = creator_op[src]]
               /\ inputs' = [inputs EXCEPT ![new] = inputs[src]]
               /\ inputs_ref' = [inputs_ref EXCEPT ![new] = OwnInputsRef(src, new)]
               /\ can_trace' = [can_trace EXCEPT ![new] = can_trace[src]]
               /\ is_origin' = [is_origin EXCEPT ![new] = Method]
               /\ last' = [NoCall EXCEPT !.kind = "clone", !.args = <<src>>,
                                         !.result_kind = "state",
                                         !.result = <<new>>]
    /\ UNCHANGED <<logVars, n_records, free_records, walk, threads, agent>>

\* s.inputs.append(x) by the caller that has just got s from detach or clone:
\* the list object is edited in place, and every State that holds this list
\* object sees the edit.
EditInputs ==
    /\ last.kind \in {"detach", "clone"}
    /\ \E s \in Range(last.result), x \in Live :
           /\ Len(inputs[s]) < MaxFanIn
           /\ inputs' = [t \in StateIds |->
                            IF t \in Live /\ inputs_ref[t] = inputs_ref[s]
                            THEN Append(inputs[t], x) ELSE inputs[t]]
           /\ last' = [NoCall EXCEPT !.kind = "edit", !.args = <<s>>,
                                     !.returned = <<x>>]
    /\ UNCHANGED <<n_states, creator_op, is_origin, can_trace, payload,
                   inputs_ref, logVars, n_records, free_records, walk, threads, agent>>

\* s.is_origin() (state.py lines 100-102).  The attribute is looked up on the
\* instance first: once OpFunction.apply has set it to False (op.py line 97)
\* the call is a call of False, a TypeError.
CallIsOrigin ==
    /\ Idle
    /\ \E s \in Live :
           last' = [NoCall EXCEPT
                      !.kind = "is_origin",
                      !.args = <<s>>,
                      !.exc = IF is_origin[s] = Method THEN "none"
                              ELSE "TypeError",
                      !.exc_msg = IF is_origin[s] = Method THEN NoneStr
                                  ELSE <<"'bool' object is not callable">>,
                      !.result_kind = IF is_origin[s] # Method THEN "none"
                                      ELSE IF creator_op[s] = NoOp THEN "True"
                                      ELSE "False"]
    /\ UNCHANGED <<nodeVars, logVars, n_records, free_records, walk, threads, agent>>

\* Callers that use the methods of State on the States they make and wire.
NodeCallers ==
    [ops |-> {"Generate"}, lbs |-> {FALSE}, max_args |-> MaxWireArgs]

NextNode ==
    \/ NewState
    \/ CallOpSingle(NodeCallers)
    \/ Detach
    \/ Clone
    \/ EditInputs
    \/ CallIsOrigin
    \/ Continue

SpecNode == Init /\ [][NextNode]_vars

\* --------------------------------------------------------------- CompositeOp
\* The CompositeOp object; its name is "Composite(n)" (op.py line 182).
Composite == "Composite"

\* What the forward of a child Op does: construct a State and return it,
\* return its first input (states[0]), or raise.
Behaviours == {"fresh", "first", "raise"}
Children == SeqUpTo([op : Ops, does : Behaviours], MaxChildren)

\* The forward of a child called on current, `made` States having been
\* constructed since the composite was called.
ChildForward(child, current, made) ==
    IF child.does = "fresh"
    THEN ForwardReturns(FALSE, <<n_states + made + 1>>)
    ELSE IF child.does = "raise"
    THEN ForwardRaises(<<"boom">>)
    ELSE IF current = <<>>
    THEN ForwardRaises(<<"tuple index out of range">>)
    ELSE ForwardReturns(FALSE, <<current[1]>>)

\* The loop of CompositeOp.forward (op.py lines 196-203) from child i on: each
\* child is called on current, with no logbook, and its result, as a
\* sequence, is the next current.  An exception of a child ends the loop.
RECURSIVE RunChildren(_, _, _, _, _)
RunChildren(g, children, i, current, made) ==
    IF i > Len(children)
    THEN [g |-> g, exc_msg |-> NoneStr, current |-> current, made |-> made]
    ELSE LET fwd == ChildForward(children[i], current, made)
             a == Apply(g, children[i].op, current, fwd)
             now == IF a.forward_called /\ children[i].does = "fresh"
                    THEN made + 1 ELSE made
         IN  IF a.exc # "none"
             THEN [g |-> a.g, exc_msg |-> a.exc_msg, current |-> <<>>,
                   made |-> now]
             ELSE RunChildren(a.g, children, i + 1, a.result.value, now)

\* CompositeOp(*children)(*args), with no logbook: Op.__call__ and
\* OpFunction.apply of the composite, whose forward (op.py lines 185-205)
\* runs the children and returns the last current, collapsed.
CallComposite ==
    /\ Idle
    /\ \E children \in Children, args \in SeqUpTo(Live, MaxWireArgs) :
           LET r == RunChildren(Graph, children, 1, args, 0)
               fwd == IF r.exc_msg # NoneStr THEN ForwardRaises(r.exc_msg)
                      ELSE ForwardReturns(Len(r.current) # 1, r.current)
               a == Apply(r.g, Composite, args, fwd)
           IN  /\ n_states + r.made <= MaxStates
               /\ n_states' = n_states + r.made
               /\ creator_op' = a.g.creator_op
               /\ inputs' = a.g.inputs
               /\ is_origin' = a.g.is_origin
               /\ inputs_ref' = [s \in StateIds |->
                                    IF a.g.creator_op[s] # creator_op[s] THEN s
                                    ELSE inputs_ref[s]]
               /\ last' = [NoCall EXCEPT
                             !.kind = "composite",
                             !.op = Composite,
                             !.args = args,
                             !.children = children,
                             !.forward_called = TRUE,
                             !.raised = fwd.raises,
                             !.returned = IF fwd.raises = NoneStr
                                          THEN r.current ELSE <<>>,
                             !.exc = a.exc,
                             !.exc_msg = a.exc_msg,
                             !.result_kind = IF a.exc = "none"
                                             THEN a.result.kind ELSE "none",
                             !.result = IF a.exc = "none" THEN a.result.value
                                        ELSE <<>>]
    /\ UNCHANGED <<can_trace, payload, logVars, n_records, free_records, walk, threads, agent>>

\* Callers that chain Ops in composites.
NextComposite ==
    \/ NewState
    \/ CallComposite
    \/ Continue

SpecComposite == Init /\ [][NextComposite]_vars


\* ------------------------------------------- walks over detached States
\* Callers that detach States, hand them to Ops together with a logbook, and
\* walk back from what they get.
DetachedCallers ==
    [ops |-> {"Generate"}, lbs |-> {TRUE}, max_args |-> MaxWireArgs]

NextDetached ==
    \/ NewState
    \/ Detach
    \/ CallOpSingle(DetachedCallers)
    \/ Continue
    \/ BackwardStart
    \/ BackwardStep
    \/ DisplayStart
    \/ DisplayStep
    \/ WalkReturn

SpecDetached ==
    Init /\ [][NextDetached]_vars
         /\ WF_vars(BackwardStep) /\ WF_vars(DisplayStep)

\* ------------------------------------------- calls of Ops run in threads
\* Each thread calls one Op, handing it the logbook; the threads switch
\* between the statements of Op.__call__ and OpFunction.apply.  The forward
\* of the Op constructs a State and returns it or returns a State there is
\* already (one it keeps, which the forward of another call returns too),
\* or raises.

\* op(*args, logbook=lb) is called: start_time is taken (op.py line 151) and
\* the inputs pass the check (op.py lines 78-80).
InvokeBegin ==
    /\ Idle
    /\ \E t \in Threads, op \in Ops, args \in SeqUpTo(Live, MaxWireArgs) :
           /\ threads[t].pc = "idle"
           /\ threads' = [threads EXCEPT
                             ![t] = [@ EXCEPT !.pc = "forward", !.op = op,
                                              !.args = args]]
    /\ UNCHANGED <<nodeVars, logVars, n_records, free_records, last, walk,
                   agent>>

\* op.forward(*inputs) runs (op.py lines 82-85) and returns one State.
InvokeForward ==
    /\ \E t \in Threads, k \in 0..1 :
           /\ threads[t].pc = "forward"
           /\ n_states + k <= MaxStates
           /\ \E out \in 1..(n_states + k) :
                  /\ k = 1 => out = n_states + 1
                  /\ n_states' = n_states + k
                  /\ threads' = [threads EXCEPT
                                    ![t] = [@ EXCEPT
                                               !.pc = "check", !.out = out,
                                               !.fresh = creator_op[out] = NoOp]]
    /\ UNCHANGED <<creator_op, inputs, is_origin, can_trace, payload,
                   inputs_ref, logVars, n_records, free_records, last, walk,
                   agent>>

\* op.forward(*inputs) raises, and apply raises RuntimeError from it (op.py
\* lines 84-85).
InvokeForwardRaises ==
    /\ \E t \in Threads, m \in Msgs :
           /\ threads[t].pc = "forward"
           /\ threads' = [threads EXCEPT
                             ![t] = [@ EXCEPT
                                        !.pc = "raised",
                                        !.error =
                                            RuntimeErrorMsg(threads[t].op, m)]]
    /\ UNCHANGED <<nodeVars, logVars, n_records, free_records, last, walk,
                   agent>>

\* `if output.creator_op is None:` (op.py line 94).
InvokeCheck ==
    /\ \E t \in Threads :
           /\ threads[t].pc = "check"
           /\ threads' = [threads EXCEPT
                             ![t].pc = IF creator_op[threads[t].out] = NoOp
                                       THEN "set_creator" ELSE "record"]
    /\ UNCHANGED <<nodeVars, logVars, n_records, free_records, last, walk,
                   agent>>

\* `output.creator_op = op` (op.py line 95).
InvokeSetCreator ==
    /\ \E t \in Threads :
           /\ threads[t].pc = "set_creator"
           /\ creator_op' = [creator_op EXCEPT ![threads[t].out] = threads[t].op]
           /\ threads' = [threads EXCEPT
                             ![t] = [@ EXCEPT !.pc = "set_inputs",
                                              !.stamped = TRUE]]
    /\ UNCHANGED <<n_states, inputs, is_origin, can_trace, payload,
                   inputs_ref, logVars, n_records, free_records, last, walk,
                   agent>>

\* `output.inputs = list(inputs)` (op.py line 96).
InvokeSetInputs ==
    /\ \E t \in Threads :
           /\ threads[t].pc = "set_inputs"
           /\ inputs' = [inputs EXCEPT ![threads[t].out] = threads[t].args]
           /\ inputs_ref' = [inputs_ref EXCEPT ![threads[t].out] = threads[t].out]
           /\ threads' = [threads EXCEPT ![t].pc = "set_is_origin"]
    /\ UNCHANGED <<n_states, creator_op, is_origin, can_trace, payload,
                   logVars, n_records, free_records, last, walk, agent>>

\* `output.is_origin = False` (op.py line 97).
InvokeSetIsOrigin ==
    /\ \E t \in Threads :
           /\ threads[t].pc = "set_is_origin"
           /\ is_origin' = [is_origin EXCEPT ![threads[t].out] = ShadowedFalse]
           /\ threads' = [threads EXCEPT ![t].pc = "record"]
    /\ UNCHANGED <<n_states, creator_op, inputs, can_trace, payload,
                   inputs_ref, logVars, n_records, free_records, last, walk,
                   agent>>

\* apply has returned; `logbook.record(output, op_name=self.name,
\* inputs=list(states))` (op.py lines 159-164): the OpRecord of the call is
\* made here, inside Logbook.record (agent.py line 68), completed and filed.
InvokeRecord ==
    /\ \E t \in Threads :
           /\ threads[t].pc = "record"
           /\ LET r == LogbookRecord(Ledger, threads[t].out,
                                     NameOf(threads[t].op), threads[t].args,
                                     NoneStr)
              IN  /\ bubbles' = r.L.bubbles
                  /\ op_records' = r.L.op_records
                  /\ n_records' = r.L.n_records
                  /\ threads' = [threads EXCEPT
                                    ![t] = [@ EXCEPT
                                               !.pc = "done",
                                               !.record_id = r.L.n_records]]
    /\ UNCHANGED <<nodeVars, free_records, last, walk, agent>>

\* apply has raised; `logbook.record(op_name=self.name, inputs=list(states),
\* error=str(e))` and the exception goes on to the caller (op.py lines
\* 166-169).
InvokeRecordFailure ==
    /\ \E t \in Threads :
           /\ threads[t].pc = "raised"
           /\ LET r == LogbookRecord(Ledger, None, NameOf(threads[t].op),
                                     threads[t].args, threads[t].error)
              IN  /\ bubbles' = r.L.bubbles
                  /\ op_records' = r.L.op_records
                  /\ n_records' = r.L.n_records
                  /\ threads' = [threads EXCEPT
                                    ![t] = [@ EXCEPT
                                               !.pc = "failed",
                                               !.record_id = r.L.n_records]]
    /\ UNCHANGED <<nodeVars, free_records, last, walk, agent>>

NextInvoke ==
    \/ NewState
    \/ InvokeBegin
    \/ InvokeForward
    \/ InvokeForwardRaises
    \/ InvokeCheck
    \/ InvokeSetCreator
    \/ InvokeSetInputs
    \/ InvokeSetIsOrigin
    \/ InvokeRecord
    \/ InvokeRecordFailure

SpecInvoke == Init /\ [][NextInvoke]_vars

\* ------------------------------------------------ the modules of an agent
\* isinstance(value, (AispAgent, Op)).
IsModule(v) == v \in Modules

\* agent.<name>: the normal lookup finds the instance's __dict__, then the
\* class; __getattr__ (agent.py lines 260-266) runs only when both fail, and
\* looks in _modules.
Lookup(a, name) ==
    IF a.dict[name] # Absent THEN a.dict[name]
    ELSE IF name \in ClassAttrs THEN MethodOfClass
    ELSE IF a.modules[name] # Absent THEN a.modules[name]
    ELSE "AttributeError"

\* agent.get_submodule(name) for a name with no dot (agent.py lines 235-258).
Submodule(a, name) ==
    IF a.modules[name] = Absent THEN "AttributeError" ELSE a.modules[name]

\* agent.add_module(name, module) (agent.py lines 197-209); a value that is
\* no module raises TypeError and changes nothing.
AddModule ==
    /\ \E name \in AttrNames, v \in Modules \cup Plain :
           agent' = IF IsModule(v)
                    THEN [agent EXCEPT !.modules[name] = v,
                                       !.got = NewAgent.got]
                    ELSE [agent EXCEPT !.got = NewAgent.got]
    /\ UNCHANGED <<nodeVars, logVars, n_records, free_records, last, walk,
                   threads>>

\* agent.<name> = value (agent.py lines 268-275): a module goes into
\* _modules, and every value goes into the instance's __dict__.
SetAttr ==
    /\ \E name \in AttrNames, v \in Modules \cup Plain :
           agent' = [agent EXCEPT
                        !.modules[name] = IF IsModule(v) THEN v ELSE @,
                        !.dict[name] = v,
                        !.got = NewAgent.got]
    /\ UNCHANGED <<nodeVars, logVars, n_records, free_records, last, walk,
                   threads>>

\* agent.<name> is read.
GetAttr ==
    /\ \E name \in AttrNames :
           agent' = [agent EXCEPT
                        !.got = [by |-> "getattr", name |-> name,
                                 value |-> Lookup(agent, name)]]
    /\ UNCHANGED <<nodeVars, logVars, n_records, free_records, last, walk,
                   threads>>

\* agent.get_submodule(name) is called.
GetSubmodule ==
    /\ \E name \in AttrNames :
           agent' = [agent EXCEPT
                        !.got = [by |-> "get_submodule", name |-> name,
                                 value |-> Submodule(agent, name)]]
    /\ UNCHANGED <<nodeVars, logVars, n_records, free_records, last, walk,
                   threads>>

NextAgent ==
    \/ AddModule
    \/ SetAttr
    \/ GetAttr
    \/ GetSubmodule

SpecAgent == Init /\ [][NextAgent]_vars
\* =================================================================== claims
\* The States a sequence of values names.
StatesIn(seq) == Range(seq) \cap StateIds

\* The last operation was a call of an Op that returned normally.
Returned == last.kind = "call" /\ last.exc = "none"

\* C1: once a State has a creator_op, no call of OpFunction.apply, by any Op
\* and whatever it returns, changes its creator_op or its inputs.
C1_StampedOnce ==
    [][\A s \in StateIds :
           creator_op[s] # NoOp =>
               /\ creator_op'[s] = creator_op[s]
               /\ inputs'[s] = inputs[s]]_vars

\* C1's case: an Op has just returned a State that another Op had stamped
\* before, with other inputs than this call's.
C1_Witness ==
    /\ Returned
    /\ \E s \in StatesIn(last.result) :
           /\ creator_op[s] \notin {NoOp, last.op}
           /\ inputs[s] # last.args

\* C2 as stated: creator_op is None if and only if inputs is empty.  An Op
\* called with no inputs stamps its output with itself and the empty list.
C2_OriginIff ==
    \A s \in Live : (creator_op[s] = NoOp) <=> (inputs[s] = <<>>)

\* C2, amended: a State with no creator_op has no inputs (a State with inputs
\* has a creator_op).
C2_OriginHasNoInputs ==
    \A s \in Live : (creator_op[s] = NoOp) => (inputs[s] = <<>>)

\* C2's case: one State stamped by a call with inputs, one stamped by a call
\* with none, one origin.
C2_Witness ==
    \E s, t, u \in Live :
        /\ creator_op[s] # NoOp /\ inputs[s] # <<>>
        /\ creator_op[t] # NoOp /\ inputs[t] = <<>>
        /\ creator_op[u] = NoOp

\* C3: when forward returns N States, apply returns the State itself for
\* N = 1 and the list of those N States, in the order returned, for N > 1.
C3_SingletonCollapse ==
    Returned =>
        /\ Len(last.returned) = 1 =>
               last.result_kind = "state" /\ last.result = last.returned
        /\ Len(last.returned) > 1 =>
               last.result_kind = "list" /\ last.result = last.returned

\* C3's case: a call whose forward returned two different States.
C3_Witness ==
    /\ Returned
    /\ Len(last.returned) = 2
    /\ last.returned[1] # last.returned[2]

\* C4: a record that is completed stays completed, with its error, when fail
\* is called on it later; a record that is failed stays failed, with its
\* output, when complete is called on it later.
C4_OneTerminalTransition ==
    [][\A i \in 1..Len(free_records) :
           /\ free_records[i].status = "completed" =>
                  /\ free_records'[i].status = "completed"
                  /\ free_records'[i].error = free_records[i].error
           /\ free_records[i].status = "failed" =>
                  /\ free_records'[i].status = "failed"
                  /\ free_records'[i].output = free_records[i].output]_vars

\* The record_ids of a list of records, in order.
Ids(rs) == [i \in 1..Len(rs) |-> rs[i].record_id]

\* p is a prefix of q.
IsPrefix(p, q) == Len(p) <= Len(q) /\ \A i \in 1..Len(p) : p[i] = q[i]

\* C5: whatever is recorded, and whether or not the call raises, bubbles and
\* op_records never get shorter and every entry keeps its position.
C5_AppendOnly ==
    [][/\ IsPrefix(bubbles, bubbles')
       /\ IsPrefix(Ids(op_records), Ids(op_records'))]_vars

\* C5's case: Logbook.record has just put a failed record behind a completed
\* one, whose bubble is in bubbles.
C5_Witness ==
    /\ last.kind = "record"
    /\ Len(op_records) = 2
    /\ op_records[1].status = "completed"
    /\ op_records[2].status = "failed"
    /\ bubbles = <<op_records[1].output>>

\* Logbook.record was just called with this bubble / this error.
RecordedBubble == last.returned[1]
RecordedError == last.raised

\* C6: Logbook.record with an op_name raises when a bubble and an error are
\* both given and when neither is, and leaves both lists as they were.
C6_ExactlyOneOfBubbleAndError ==
    [][(/\ last'.kind = "record"
        /\ last'.op # NoOp
        /\ (RecordedBubble' # None) <=> (RecordedError' # NoneStr))
           => /\ last'.exc # "none"
              /\ bubbles' = bubbles
              /\ op_records' = op_records]_vars

\* C7: when forward raises with message m and the call was handed the
\* logbook, the caller gets the exception, with m in it, op_records gains
\* exactly one record, failed, with m in its error, and bubbles gains nothing.
C7_FailureRecordedOnce ==
    [][(/\ last'.kind = "call"
        /\ last'.logbook
        /\ last'.raised # NoneStr)
           => /\ last'.exc = "RuntimeError"
              /\ Contains(last'.exc_msg, last'.raised)
              /\ Len(op_records') = Len(op_records) + 1
              /\ IsPrefix(op_records, op_records')
              /\ op_records'[Len(op_records')].status = "failed"
              /\ op_records'[Len(op_records')].output = None
              /\ Contains(op_records'[Len(op_records')].error, last'.raised)
              /\ bubbles' = bubbles]_vars

\* C7's case: forward raised "bad input" in a call handed a logbook that
\* already held a record.
C7_Witness ==
    /\ last.kind = "call"
    /\ last.logbook
    /\ last.raised = <<"bad input">>
    /\ Len(op_records) = 2
    /\ op_records[2].status = "failed"

\* C8: when apply raises because forward returned something that is not a
\* State, no State that forward returned has been stamped by the call.
C8_NoPartialWiring ==
    [][(/\ last'.kind = "call"
        /\ last'.forward_called
        /\ last'.exc = "TypeError")
           => \A s \in StatesIn(last'.returned) :
                  /\ creator_op'[s] = creator_op[s]
                  /\ inputs'[s] = inputs[s]]_vars

\* C9: when an input is not a State, the call raises TypeError, forward is
\* not called, no State is stamped, and the logbook gains no completed record
\* (and no bubble).
C9_BadInputRejected ==
    [][(/\ last'.kind = "call"
        /\ NotAState \in Range(last'.args))
           => /\ last'.exc = "TypeError"
              /\ ~last'.forward_called
              /\ UNCHANGED <<n_states, creator_op, inputs, is_origin>>
              /\ bubbles' = bubbles
              /\ IsPrefix(op_records, op_records')
              /\ \A i \in (Len(op_records) + 1)..Len(op_records') :
                     op_records'[i].status # "completed"]_vars

\* C9's case: a call handed the logbook whose second input is not a State,
\* the first being one; the attempt is in op_records.
C9_Witness ==
    /\ last.kind = "call"
    /\ last.logbook
    /\ Len(last.args) = 2
    /\ IsState(last.args[1])
    /\ last.args[2] = NotAState
    /\ Len(op_records) > 0
    /\ op_records[Len(op_records)].inputs = last.args

\* ---- C10: walks over a graph with a cycle

\* The call a walk makes next, and the line that call has just rendered.
NextCall == Head(walk.pending)
NewLine == walk'.out[Len(walk'.out)]

\* A walk makes a call: one more line in the same walk.
WalkSteps ==
    /\ walk.who # "none"
    /\ walk.pending # <<>>
    /\ walk'.who = walk.who
    /\ Len(walk'.out) = Len(walk.out) + 1

\* The call to make is for a State that is among its own callers.
BackOnPath == NextCall.state \in Range(NextCall.path)

\* The lines that say "cycle": backward's one marker for a cycle or a depth
\* cutoff, display's marker for a cycle.
CycleMarkers == {"loop", "cycle"}

\* No call still to make has the same State twice among its callers, so no
\* chain of calls is longer than the number of States.
PathsSimple ==
    \A i \in 1..Len(walk.pending) :
        \A j, k \in 1..Len(walk.pending[i].path) :
            walk.pending[i].path[j] = walk.pending[i].path[k] => j = k

\* C10 as stated: wherever a walk comes back to a State on the current path,
\* the line it renders there is a cycle marker.
C10_CycleMarkerOnEveryReturn ==
    [][(WalkSteps /\ BackOnPath) => NewLine.kind \in CycleMarkers]_vars

\* C10: on a graph with a cycle both walks terminate, no chain of calls
\* repeating a State, and a walk that comes back to a State on the current
\* path goes no further from there and renders a marker: the cycle marker,
\* except in display at a depth of count or more, where the depth check comes
\* first and the depth marker is rendered.
C10_WalksTerminateWithMarker ==
    /\ []PathsSimple
    /\ [][(WalkSteps /\ BackOnPath) =>
            /\ walk'.pending = Tail(walk.pending)
            /\ NewLine.state = NextCall.state
            /\ NewLine.depth = NextCall.depth
            /\ IF /\ walk.who = "display"
                  /\ DisplayDepthStops(walk.max_depth, NextCall.depth)
               THEN NewLine.kind = "depth"
               ELSE NewLine.kind \in CycleMarkers]_vars
    /\ (walk.who # "none") ~> WalkDone

\* C10's case: display with a depth limit has walked a cycle through its
\* start and is done, the return to the start rendered as a cycle.
C10_Witness ==
    /\ walk.who = "display"
    /\ WalkDone
    /\ walk.max_depth = MaxDepthArg
    /\ \E i \in 1..Len(walk.out) :
           /\ walk.out[i].kind = "cycle"
           /\ walk.out[i].state = walk.start
           /\ walk.out[i].depth > 0

\* ---- C11: State.backward with a depth limit

\* The States at most k hops from the States of S along State.inputs.
RECURSIVE Within(_, _)
Within(S, k) ==
    IF k = 0 THEN S
    ELSE Within(S \cup UNION {Range(inputs[s]) : s \in S}, k - 1)

\* The States a walk has rendered normally, as lines of the given kind.
Rendered(kind) ==
    {walk.out[i].state : i \in {j \in 1..Len(walk.out) : walk.out[j].kind = kind}}

\* State.backward(max_depth = k), k >= 0, has returned.
BackwardDoneWithLimit ==
    walk.who = "backward" /\ WalkDone /\ walk.max_depth # NoLimit

\* No line is deeper than one past the limit, none past the limit is a normal
\* line, and every normal line at the limit is followed by one marker for
\* each of its inputs, in order.
BackwardCutoffMarked ==
    \A i \in 1..Len(walk.out) :
        /\ walk.out[i].depth <= walk.max_depth + 1
        /\ walk.out[i].depth = walk.max_depth + 1 => walk.out[i].kind = "loop"
        /\ (walk.out[i].kind = "bubble" /\ walk.out[i].depth = walk.max_depth)
               => LET ins == inputs[walk.out[i].state]
                  IN  /\ i + Len(ins) <= Len(walk.out)
                      /\ \A j \in 1..Len(ins) :
                             /\ walk.out[i + j].kind = "loop"
                             /\ walk.out[i + j].state = ins[j]
                             /\ walk.out[i + j].depth = walk.max_depth + 1

\* C11: State.backward with max_depth = k renders normally exactly the States
\* at most k hops from the start, and marks every branch that goes on past k
\* hops at the cutoff, without going further.
C11_BackwardDepthBound ==
    BackwardDoneWithLimit =>
        /\ Rendered("bubble") = Within({walk.start}, walk.max_depth)
        /\ BackwardCutoffMarked

\* ---- C12: Logbook.display with a depth limit

\* The inputs display follows from s: those of the record it takes as the
\* producer of s, none when there is no such record.
RecordInputs(s) ==
    IF ProducingRecord(s) = 0 THEN <<>>
    ELSE op_records[ProducingRecord(s)].inputs

\* The States at most k hops from the States of S along the records.
RECURSIVE RecordWithin(_, _)
RecordWithin(S, k) ==
    IF k = 0 THEN S
    ELSE RecordWithin(S \cup UNION {Range(RecordInputs(s)) : s \in S}, k - 1)

\* Logbook.display(from_bubble, count = k), k >= 0, has walked and returned.
DisplayDoneWithLimit ==
    /\ walk.who = "display"
    /\ WalkDone
    /\ walk.start # None
    /\ walk.max_depth # NoLimit

\* C12: Logbook.display with count = k, k = 0 included, renders normally
\* exactly the States at most k hops from the start, and nothing deeper than
\* the markers one hop past them.
C12_DisplayDepthBound ==
    DisplayDoneWithLimit =>
        /\ Rendered("op") \cup Rendered("origin")
               = RecordWithin({walk.start}, walk.max_depth)
        /\ \A i \in 1..Len(walk.out) :
               /\ walk.out[i].depth <= walk.max_depth + 1
               /\ walk.out[i].depth = walk.max_depth + 1
                      => walk.out[i].kind = "depth"

\* ---- C13: a linear chain of Ops with one logbook

\* The lines display renders for a chain of n records whose bubbles are bs:
\* the Ops from the last to the first, one level deeper each, then the origin.
ChainTrace(n, bs) ==
    [i \in 1..(n + 1) |->
        IF i <= n
        THEN [kind |-> "op", op |-> op_records[n + 1 - i].op_name,
              state |-> bs[n + 2 - i], depth |-> i - 1]
        ELSE [kind |-> "origin", op |-> NoOp, state |-> bs[1], depth |-> n]]

\* C13: after n >= 1 single-output Ops chained from a recorded origin with
\* one logbook, the logbook holds n records, all completed, and n + 1 bubbles
\* in creation order, each record leading from one bubble to the next, and
\* display of the last bubble renders the Ops from last to first, each the
\* only child of the one before, down to the origin leaf.
C13_ChainLedgerAndTrace ==
    LET n == Len(op_records)
    IN  n >= 1 =>
            /\ \A i \in 1..n : op_records[i].status = "completed"
            /\ Len(bubbles) = n + 1
            /\ \A i, j \in 1..(n + 1) : i < j => bubbles[i] < bubbles[j]
            /\ \A i \in 1..n :
                   /\ op_records[i].output = bubbles[i + 1]
                   /\ op_records[i].inputs = <<bubbles[i]>>
                   /\ op_records[i].op_name = NameOf(creator_op[bubbles[i + 1]])
            /\ (/\ walk.who = "display"
                /\ WalkDone
                /\ walk.start = bubbles[n + 1]
                /\ walk.max_depth = NoLimit)
                   => walk.out = ChainTrace(n, bubbles)

\* C13's case: a chain of three Ops, the second another Op than the first,
\* has been displayed from its last bubble.
C13_Witness ==
    /\ Len(op_records) = 3
    /\ op_records[1].op_name # op_records[2].op_name
    /\ walk.who = "display"
    /\ WalkDone
    /\ walk.start = bubbles[4]
    /\ walk.max_depth = NoLimit
    /\ Len(walk.out) = 4

\* ---- C14: State.is_origin()

\* C14: for every State, origin or stamped, is_origin() returns, and returns
\* True exactly when the State has no creator_op.
C14_IsOriginIffNoCreator ==
    last.kind = "is_origin" =>
        /\ last.exc = "none"
        /\ last.result_kind = "True" <=> creator_op[last.args[1]] = NoOp

\* ---- C17: State.detach and State.clone

\* C17: detach and clone make a new State and change no field of any State
\* there was; the State detach returns has no creator_op, no inputs and the
\* payload of its source; the State clone returns has the creator_op of its
\* source and equal inputs in a list object of its own; and editing the list
\* of the result, or a later Op stamping the result, changes no other State.
C17_CopiesLeaveSourceAlone ==
    [][/\ last'.kind \in {"detach", "clone"} =>
              LET src == last'.args[1]
                  new == last'.result[1]
              IN  /\ new \notin Live /\ Live' = Live \cup {new}
                  /\ \A s \in Live :
                         /\ creator_op'[s] = creator_op[s]
                         /\ inputs'[s] = inputs[s]
                         /\ inputs_ref'[s] = inputs_ref[s]
                         /\ is_origin'[s] = is_origin[s]
                         /\ can_trace'[s] = can_trace[s]
                         /\ payload'[s] = payload[s]
                  /\ last'.kind = "detach" =>
                         /\ creator_op'[new] = NoOp
                         /\ inputs'[new] = <<>>
                         /\ payload'[new] = payload[src]
                  /\ last'.kind = "clone" =>
                         /\ creator_op'[new] = creator_op[src]
                         /\ inputs'[new] = inputs[src]
                         /\ inputs_ref'[new] # inputs_ref[src]
       /\ last'.kind = "edit" =>
              \A t \in Live \ {last'.args[1]} : inputs'[t] = inputs[t]
       /\ last'.kind = "call" =>
              \A t \in Live \ StatesIn(last'.returned) :
                  /\ creator_op'[t] = creator_op[t]
                  /\ inputs'[t] = inputs[t]]_vars

\* C17's case: the caller has just edited the inputs of the clone of a
\* stamped State with one input; the source still has its one input.
C17_Witness ==
    /\ last.kind = "edit"
    /\ \E src \in Live \ {last.args[1]} :
           /\ creator_op[src] # NoOp
           /\ is_origin[src] = ShadowedFalse
           /\ Len(inputs[src]) = 1
           /\ creator_op[last.args[1]] = creator_op[src]
           /\ is_origin[last.args[1]] = Method
           /\ inputs[last.args[1]] = Append(inputs[src], last.returned[1])

\* ---- C15: the creator_op of what a CompositeOp returns

\* C15: the creator_op of every State a CompositeOp call returns is the last
\* child Op, and never the composite.
C15_LastChildProduces ==
    (last.kind = "composite" /\ last.exc = "none") =>
        \A s \in StatesIn(last.result) :
            /\ creator_op[s] # Composite
            /\ last.children # <<>> =>
                   creator_op[s] = last.children[Len(last.children)].op

\* ---- C16: Logbook.record of a bubble alone

\* C16: Logbook.record of a State with no op_name, whatever inputs and error
\* it is given, puts that State at the end of bubbles and leaves op_records
\* as it was.
C16_BubbleOnly ==
    [][(/\ last'.kind = "record"
        /\ last'.op = NoOp
        /\ RecordedBubble' # None)
           => /\ last'.exc = "none"
              /\ bubbles' = Append(bubbles, RecordedBubble')
              /\ op_records' = op_records]_vars

\* C16's case: a State was just recorded with no op_name, but with inputs
\* and an error, in a logbook that held a record and its bubble.
C16_Witness ==
    /\ last.kind = "record"
    /\ last.op = NoOp
    /\ last.args # NoneList
    /\ last.raised # NoneStr
    /\ Len(op_records) = 1
    /\ Len(bubbles) = 2
    /\ bubbles[2] = RecordedBubble

\* ---- C18: the graph the wiring makes

\* C18: whatever Ops are called, and whatever States they return, no State
\* is reachable from itself along State.inputs.
C18_Acyclic ==
    \A s \in Live : s \notin Within(Range(inputs[s]), MaxTraceStates)

\* ---- C19: records per call

\* C19: a call of an Op that is handed the logbook puts exactly one record in
\* op_records, however many States the Op returns.
C19_OneRecordPerCall ==
    [][(last'.kind = "call" /\ last'.logbook)
           => Len(op_records') = Len(op_records) + 1]_vars

\* ---- C20: the marker of State.backward

\* C20: State.backward renders the marker only for a State that is among the
\* callers of the call (or past max_depth, the marker being the same); a State
\* reached again on a sibling branch is rendered normally.
C20_MarkerOnlyOnPath ==
    [][(/\ walk.who = "backward"
        /\ WalkSteps
        /\ NewLine.kind = "loop")
           => \/ BackOnPath
              \/ (/\ walk.max_depth # NoLimit
                  /\ NextCall.depth > walk.max_depth)]_vars

\* ---- C21: the cycle marker of Logbook.display

\* C21: Logbook.display renders the cycle marker only for a State that is
\* among the callers of the call; any other State, one already rendered on a
\* sibling branch included, is rendered in full where no depth limit stops
\* it: its line, and a call for each input of its record.
C21_DisplayMarkerOnlyOnPath ==
    [][(walk.who = "display" /\ WalkSteps) =>
           /\ NewLine.kind = "cycle" => BackOnPath
           /\ (/\ ~BackOnPath
               /\ ~DisplayDepthStops(walk.max_depth, NextCall.depth))
                  => /\ NewLine.kind \in {"op", "origin"}
                     /\ Len(walk'.pending) = Len(walk.pending) - 1
                            + Len(RecordInputs(NextCall.state))
                     /\ \A j \in 1..Len(RecordInputs(NextCall.state)) :
                            walk'.pending[j].state
                                = RecordInputs(NextCall.state)[j]]_vars

\* C21's case: display, with no depth limit, has rendered a State with a
\* record twice in full, once under each of two siblings, and no marker.
C21_Witness ==
    /\ walk.who = "display"
    /\ WalkDone
    /\ walk.max_depth = NoLimit
    /\ \A i \in 1..Len(walk.out) : walk.out[i].kind \in {"op", "origin"}
    /\ \E i, j \in 1..Len(walk.out) :
           /\ i < j
           /\ walk.out[i].state = walk.out[j].state
           /\ walk.out[i].kind = "op"
           /\ walk.out[j].kind = "op"
           /\ walk.out[i].depth = 1
           /\ walk.out[j].depth = 1

\* ---- C22: the records and the States' fields describe one graph

\* C22: every completed record that a call of an Op handed the logbook puts
\* in op_records has the name of its output's creator_op as op_name and its
\* output's inputs as inputs.
C22_RecordMatchesStamp ==
    [][(last'.kind = "call" /\ last'.logbook) =>
           \A i \in (Len(op_records) + 1)..Len(op_records') :
               op_records'[i].status = "completed" =>
                   /\ op_records'[i].op_name
                          = NameOf(creator_op'[op_records'[i].output])
                   /\ op_records'[i].inputs
                          = inputs'[op_records'[i].output]]_vars

\* ---- C25: what the logbook holds

\* C25: every record in op_records is completed or failed, has an output
\* exactly when it is completed, and has an error (one that is not None)
\* exactly when it is failed.
C25_LedgerRecordsTerminal ==
    \A i \in 1..Len(op_records) :
        /\ op_records[i].status \in {"completed", "failed"}
        /\ (op_records[i].output # None) <=> (op_records[i].status = "completed")
        /\ (op_records[i].error # NoneStr) <=> (op_records[i].status = "failed")

\* Logbook.record has filed a failed record, one with the error "" among
\* them, and a completed one.
C25_Witness ==
    /\ last.kind = "record"
    /\ Len(op_records) = 2
    /\ op_records[1].status = "failed" /\ op_records[1].error = EmptyStr
    /\ op_records[2].status = "completed" /\ op_records[2].output \in Live

\* ---- C26: walks and can_trace

\* C26: a call of a walk for a State whose can_trace is False renders that
\* State and makes no call for any of its inputs.
C26_UntraceableNotFollowed ==
    [][(WalkSteps /\ ~can_trace[NextCall.state]) =>
           walk'.pending = Tail(walk.pending)]_vars

\* ---- C27: the order of the children, and walking twice

\* The inputs a walk reads for a State: the State's own for State.backward,
\* the producing record's for Logbook.display.
StoredInputs(s) ==
    IF walk.who = "backward" THEN inputs[s] ELSE RecordInputs(s)

\* C27: a call of a walk that renders a State in full makes the calls for
\* the State's stored inputs next, one for each, in the stored order; and a
\* walk made a second time from the same State with the same limit, nothing
\* changed in between, returns the rendering the first returned.
C27_StoredOrderAndRepeatable ==
    [][/\ (WalkSteps /\ NewLine.kind \in {"bubble", "op"}) =>
              /\ Len(walk'.pending)
                     = Len(walk.pending) - 1 + Len(StoredInputs(NextCall.state))
              /\ \A j \in 1..Len(StoredInputs(NextCall.state)) :
                     /\ walk'.pending[j].state
                            = StoredInputs(NextCall.state)[j]
                     /\ walk'.pending[j].depth = NextCall.depth + 1
       /\ (walk'.again /\ walk'.pending = <<>>) =>
              walk'.out = walk'.before]_vars

\* A walk made twice has returned: a State with two different inputs was
\* rendered, its inputs beneath it in their order, the same both times.
C27_Witness ==
    /\ WalkDone
    /\ walk.again
    /\ walk.out = walk.before
    /\ Len(walk.out) >= 3
    /\ walk.out[1].kind \in {"bubble", "op"}
    /\ walk.out[2].depth = 1 /\ walk.out[3].depth = 1
    /\ walk.out[2].state # walk.out[3].state
    /\ StoredInputs(walk.start) = <<walk.out[2].state, walk.out[3].state>>

\* ---- C23: two calls that return the same fresh State

\* The call of thread t has finished wiring its output.
Wired(t) == threads[t].pc \in {"record", "done"}

\* C23: when two calls running in threads have both returned the same State,
\* unstamped when each returned it, exactly one of them stamps it, and the
\* State ends with the creator_op and the inputs of that one call.
C23_StampAtomicPerState ==
    \A t, u \in Threads :
        (/\ t # u
         /\ Wired(t) /\ Wired(u)
         /\ threads[t].out = threads[u].out
         /\ threads[t].fresh /\ threads[u].fresh)
            => \E w \in {t, u} :
                   /\ threads[w].stamped
                   /\ \A v \in {t, u} \ {w} : ~threads[v].stamped
                   /\ creator_op[threads[w].out] = threads[w].op
                   /\ inputs[threads[w].out] = threads[w].args

\* ---- C24: when the record of a call is made

\* C24: while the forward of a call handed a logbook is still to run, the
\* OpRecord of the call exists, in status started; and the record of a call
\* is completed or failed only when its forward has returned or raised.
C24_RecordStartedBeforeForward ==
    \A t \in Threads :
        /\ threads[t].pc = "forward" =>
               \E i \in 1..Len(op_records) :
                   /\ op_records[i].record_id = threads[t].record_id
                   /\ op_records[i].status = "started"
        /\ \A i \in 1..Len(op_records) :
               (/\ op_records[i].record_id = threads[t].record_id
                /\ op_records[i].status \in {"completed", "failed"})
                   => threads[t].pc \in {"done", "failed"}

\* ---- C28: the two ways to a module of an agent

\* C28: for every name _modules holds a module under, agent.<name> is the
\* module agent.get_submodule(name) returns.
C28_AttributeIsRegistry ==
    \A name \in AttrNames :
        agent.modules[name] # Absent =>
            Lookup(agent, name) = Submodule(agent, name)
=============================================================================
